---- MODULE Spec2Model ----
(***************************************************************************)
(* Leap-second aware TAI <-> UTC conversion of lsst.ts.utils.tai.          *)
(*                                                                         *)
(* Numbers.  The code computes with Python floats.  Here a time is an      *)
(* exact mixed number <<w, n>> standing for w + n/SECONDS_PER_DAY seconds  *)
(* (0 <= n < SECONDS_PER_DAY).  Table instants and TAI-UTC offsets are     *)
(* whole seconds, as they are in the leap second table.  The smeared       *)
(* offset off0 + (off1 - off0) * frac_day of a whole-second UTC is an      *)
(* exact multiple of 1/SECONDS_PER_DAY, so it is represented without       *)
(* rounding.                                                               *)
(*                                                                         *)
(* None is modelled by the empty sequence: no update can publish an empty  *)
(* table, since the expiry sentinel is always appended.                    *)
(***************************************************************************)
EXTENDS Integers, Sequences, FiniteSets, TLC

VARIABLES
    UTC_LEAP_SECOND_TABLE,          \* tai.py:56  global _UTC_LEAP_SECOND_TABLE
    TAI_LEAP_SECOND_TABLE,          \* tai.py:61  global _TAI_LEAP_SECOND_TABLE
    LEAP_SECOND_TABLE_UPDATE_TIMER, \* tai.py:65  global, 0 for None
    current_tai,                    \* tai.py:372 the function current_tai is
    timers,                         \* the threading.Timer objects created
    upd,                            \* _update_leap_second_table, per thread
    main,                           \* where the importing thread is
    updates,                        \* updates started so far
    now,                            \* time.time(), whole seconds
    rd,                             \* the conversion call in progress
    prev,                           \* the conversion call completed before it
    gen,                            \* misc.py:31 an index_generator call
    os_environ,                     \* testutils.py:114 what os.environ names
    ctx,                            \* testutils.py:62 a modify_environ context
    platform,                       \* the platforms the process may run on
    source                          \* the files auto_open() may deliver

tables == <<UTC_LEAP_SECOND_TABLE, TAI_LEAP_SECOND_TABLE>>

life == <<LEAP_SECOND_TABLE_UPDATE_TIMER, current_tai, timers, upd, main,
          updates, now>>

aside == <<gen, os_environ, ctx, platform, source>>

vars == <<UTC_LEAP_SECOND_TABLE, TAI_LEAP_SECOND_TABLE,
          LEAP_SECOND_TABLE_UPDATE_TIMER, current_tai, timers, upd, main,
          updates, now, rd, prev, aside>>

None == <<>>

SECONDS_PER_DAY == 24 * 60 * 60

(***************************************************************************)
(* Exact arithmetic on mixed numbers                                       *)
(***************************************************************************)
Whole(w) == <<w, 0>>

Norm(w, n) == <<w + (n \div SECONDS_PER_DAY), n % SECONDS_PER_DAY>>

\* float("nan"), which a float parameter also admits: every ordering
\* comparison with it is False, and sums with it are nan again.
NaN == <<0, 0 - 1>>

IsNaN(a) == a[2] < 0

NumLess(a, b) ==
    /\ ~IsNaN(a) /\ ~IsNaN(b)
    /\ (a[1] < b[1] \/ (a[1] = b[1] /\ a[2] < b[2]))

NumLeq(a, b) == ~IsNaN(a) /\ ~IsNaN(b) /\ (a = b \/ NumLess(a, b))

NumPlus(a, k) == <<a[1] + k, a[2]>>

NumDiff(a, b) == Norm(a[1] - b[1], a[2] - b[2])

(***************************************************************************)
(* Calendar: astropy's .unix of a UTC date at 00:00:00 counts every day    *)
(* as SECONDS_PER_DAY seconds since 1970-01-01.                            *)
(***************************************************************************)
IsLeapYear(y) == (y % 4 = 0 /\ y % 100 # 0) \/ y % 400 = 0

LeapDaysBefore(y) == ((y - 1) \div 4) - ((y - 1) \div 100) + ((y - 1) \div 400)

DaysBeforeYear(y) == 365 * (y - 1970) + LeapDaysBefore(y) - LeapDaysBefore(1970)

MonthLengths(y) ==
    <<31, IF IsLeapYear(y) THEN 29 ELSE 28, 31, 30, 31, 30, 31, 31, 30, 31, 30, 31>>

RECURSIVE DaysBeforeMonth(_, _)
DaysBeforeMonth(y, m) ==
    IF m = 1 THEN 0 ELSE DaysBeforeMonth(y, m - 1) + MonthLengths(y)[m - 1]

UnixOfDate(y, m, d) ==
    (DaysBeforeYear(y) + DaysBeforeMonth(y, m) + (d - 1)) * SECONDS_PER_DAY

(***************************************************************************)
(* bisect.bisect(table, (x, math.inf)): the rows are (seconds, offset)     *)
(* tuples compared lexicographically; no offset exceeds math.inf, so       *)
(* (x, inf) < (s, off) exactly when x < s.                                 *)
(***************************************************************************)
\* bisect_left: a row at exactly x counts as later than x.
KeyLess_Left(x, row) == NumLeq(x, Whole(row[1]))

KeyLess(x, row) == NumLess(x, Whole(row[1]))

RECURSIVE BisectLoHi(_, _, _, _)
BisectLoHi(table, x, lo, hi) ==
    IF lo < hi
    THEN LET mid == (lo + hi) \div 2
         IN  IF KeyLess(x, table[mid + 1])
             THEN BisectLoHi(table, x, lo, mid)
             ELSE BisectLoHi(table, x, mid + 1, hi)
    ELSE lo

Bisect(table, x) == BisectLoHi(table, x, 0, Len(table))

(***************************************************************************)
(* Outcomes of a call                                                      *)
(***************************************************************************)
Ok(v) == [status |-> "ok", val |-> v]

Raise(e) == [status |-> e, val |-> <<0, 0>>]

\* ValueError, the only exception the docstrings name.
NoTableError_ValueError == "ValueError: No leap second table"

NoTableError == "RuntimeError: No leap second table"
ExpiryError == "ValueError: > expiry date of leap second table"
StartError == "ValueError: < start of integer leap seconds"
IndexError == "IndexError"

(***************************************************************************)
(* tai_from_utc_unix, tai.py:146-203, on the table it read at line 178     *)
(***************************************************************************)
\* Interpolates from the new offset back to the old one.
SmearedOffset_Swapped(utc_unix, tai_minus_utc0, tai_minus_utc1) ==
    Norm(tai_minus_utc1,
         (utc_unix[1] % SECONDS_PER_DAY) * (tai_minus_utc0 - tai_minus_utc1))

SmearedOffset(utc_unix, tai_minus_utc0, tai_minus_utc1) ==
    \* lines 198-200: frac_day = utc/86400 - floor(utc/86400)
    LET d == tai_minus_utc1 - tai_minus_utc0
        fracNum == (utc_unix[1] % SECONDS_PER_DAY) * d
                     + ((utc_unix[2] * d) \div SECONDS_PER_DAY)
    IN  Norm(tai_minus_utc0, fracNum)

\* The day is left out of the comparison: utc_unix > utc1.
InSmearDay_NoDay(utc_unix, utc1) == NumLess(Whole(utc1), utc_unix)

InSmearDay(utc_unix, utc1) ==
    \* line 194: utc_unix + SECONDS_PER_DAY > utc1
    NumLess(Whole(utc1), NumPlus(utc_unix, SECONDS_PER_DAY))

\* The offset of the next row is used outside the smear day.
FlatOffset_Next(tai_minus_utc0, tai_minus_utc1) == Whole(tai_minus_utc1)

FlatOffset(tai_minus_utc0, tai_minus_utc1) ==
    \* line 202
    Whole(tai_minus_utc0)

\* >= in place of >: the last convertible instant is refused.
PastExpiryMargin_Inclusive(utc_leap_second_table, utc_unix) ==
    NumLeq(Whole(utc_leap_second_table[Len(utc_leap_second_table)][1]
                   - SECONDS_PER_DAY), utc_unix)

PastExpiryMargin(utc_leap_second_table, utc_unix) ==
    \* line 181
    NumLess(Whole(utc_leap_second_table[Len(utc_leap_second_table)][1]
                    - SECONDS_PER_DAY), utc_unix)

tai_from_utc_unix(utc_leap_second_table, utc_unix) ==
    IF utc_leap_second_table = None THEN Raise(NoTableError)
    ELSE IF PastExpiryMargin(utc_leap_second_table, utc_unix)
         THEN Raise(ExpiryError)
    ELSE LET i == Bisect(utc_leap_second_table, utc_unix)
         IN  IF i = 0 THEN Raise(StartError)
             ELSE IF i + 1 > Len(utc_leap_second_table) THEN Raise(IndexError)
             ELSE LET utc0 == utc_leap_second_table[i][1]
                      tai_minus_utc0 == utc_leap_second_table[i][2]
                      utc1 == utc_leap_second_table[i + 1][1]
                      tai_minus_utc1 == utc_leap_second_table[i + 1][2]
                      tai_minus_utc ==
                          IF InSmearDay(utc_unix, utc1)
                          THEN SmearedOffset(utc_unix, tai_minus_utc0,
                                             tai_minus_utc1)
                          ELSE FlatOffset(tai_minus_utc0, tai_minus_utc1)
                  IN  Ok(Norm(utc_unix[1] + tai_minus_utc[1],
                              utc_unix[2] + tai_minus_utc[2]))

(***************************************************************************)
(* utc_from_tai_unix, tai.py:206-253, on the table it read at line 238     *)
(***************************************************************************)
\* The one-day margin of the UTC side, copied to the TAI side.
PastLastTai_DayMargin(tai_leap_second_table, tai_unix) ==
    NumLess(Whole(tai_leap_second_table[Len(tai_leap_second_table)][1]
                    - SECONDS_PER_DAY), tai_unix)

PastLastTai(tai_leap_second_table, tai_unix) ==
    \* line 241
    NumLess(Whole(tai_leap_second_table[Len(tai_leap_second_table)][1]),
            tai_unix)

\* tai_leap_second_table[i][1]: the row after the one found.
TaiMinusUtcAt_Next(tai_leap_second_table, i) ==
    tai_leap_second_table[IF i < Len(tai_leap_second_table)
                          THEN i + 1 ELSE i][2]

TaiMinusUtcAt(tai_leap_second_table, i) ==
    \* line 252: tai_leap_second_table[i - 1][1], counting from 0
    tai_leap_second_table[i][2]

\* At exactly a table instant the row before it is used, as bisect_left
\* would find it.
utc_from_tai_unix_RowBefore(tai_leap_second_table, tai_unix) ==
    IF tai_leap_second_table = None THEN Raise(NoTableError)
    ELSE IF PastLastTai(tai_leap_second_table, tai_unix)
         THEN Raise(ExpiryError)
    ELSE LET j == Bisect(tai_leap_second_table, tai_unix)
             i == IF j > 0 /\ Whole(tai_leap_second_table[j][1]) = tai_unix
                  THEN j - 1 ELSE j
         IN  IF i = 0 THEN Raise(StartError)
             ELSE Ok(NumPlus(tai_unix, 0 - tai_leap_second_table[i][2]))

utc_from_tai_unix(tai_leap_second_table, tai_unix) ==
    IF tai_leap_second_table = None THEN Raise(NoTableError)
    ELSE IF PastLastTai(tai_leap_second_table, tai_unix)
         THEN Raise(ExpiryError)
    ELSE LET i == Bisect(tai_leap_second_table, tai_unix)
         IN  IF i = 0 THEN Raise(StartError)
             ELSE LET tai_minus_utc == TaiMinusUtcAt(tai_leap_second_table, i)
                  IN  Ok(NumPlus(tai_unix, 0 - tai_minus_utc))

(***************************************************************************)
(* Building the tables, tai.py:277-294                                     *)
(***************************************************************************)
\* Rows (year, month, tai_utc) of the astropy leap second table.
LeapSecondRows ==
    << <<1971, 1, 9>>, <<1972, 1, 10>>, <<1972, 7, 11>>,
       <<2015, 7, 36>>, <<2017, 1, 37>> >>

\* A variant that keeps the rows before 1972.
RowYearOk_All(row) == TRUE

RowYearOk(row) == row[1] >= 1972

RowToUtc(row) == <<UnixOfDate(row[1], row[2], 1), row[3]>>

RECURSIVE MapRows(_)
MapRows(rows) ==
    \* lines 278-287
    IF rows = <<>> THEN <<>>
    ELSE IF RowYearOk(Head(rows))
         THEN <<RowToUtc(Head(rows))>> \o MapRows(Tail(rows))
         ELSE MapRows(Tail(rows))

BuildFails(ap_rows) == MapRows(ap_rows) = <<>>     \* line 289: IndexError

\* A variant that publishes the rows without the final expiry row.
BuildUtcTable_NoSentinel(ap_rows, expiry_date_utc_unix) == MapRows(ap_rows)

\* A variant whose last row is a day before the expiry date.
BuildUtcTable_EarlySentinel(ap_rows, expiry_date_utc_unix) ==
    Append(MapRows(ap_rows),
           <<expiry_date_utc_unix - SECONDS_PER_DAY,
             MapRows(ap_rows)[Len(MapRows(ap_rows))][2]>>)

BuildUtcTable(ap_rows, expiry_date_utc_unix) ==
    \* lines 278-290
    LET utc_leap_second_table == MapRows(ap_rows)
        last_tai_utc == utc_leap_second_table[Len(utc_leap_second_table)][2]
    IN  Append(utc_leap_second_table, <<expiry_date_utc_unix, last_tai_utc>>)

BuildTaiTable(utc_leap_second_table) ==
    \* lines 291-294
    [i \in 1..Len(utc_leap_second_table) |->
        <<utc_leap_second_table[i][1] + utc_leap_second_table[i][2],
          utc_leap_second_table[i][2]>>]

(***************************************************************************)
(* Inputs: what astropy's LeapSeconds.auto_open() may return, and the      *)
(* instants at which the conversions are called.                           *)
(***************************************************************************)
MaxRows == 2

PickRows(S) ==
    LET nth(i) == CHOOSE k \in S : Cardinality({j \in S : j < k}) = i - 1
    IN  [i \in 1..Cardinality(S) |-> LeapSecondRows[nth(i)]]

\* The row sequences a fetch may deliver: ascending, as astropy keeps them.
ApTables ==
    {PickRows(S) : S \in {T \in SUBSET (1..Len(LeapSecondRows)) :
                             T # {} /\ Cardinality(T) <= MaxRows}}

\* ap_table.expires.unix
ExpiryDates == {UnixOfDate(2017, 6, 28), UnixOfDate(2017, 12, 28)}

RowInstants ==
    {RowToUtc(LeapSecondRows[k])[1] :
        k \in {j \in 1..Len(LeapSecondRows) : RowYearOk(LeapSecondRows[j])}}

RowOffsets ==
    {LeapSecondRows[k][3] :
        k \in {j \in 1..Len(LeapSecondRows) : RowYearOk(LeapSecondRows[j])}}

Deltas ==
    {0 - 2 * SECONDS_PER_DAY, 0 - SECONDS_PER_DAY - 1, 0 - SECONDS_PER_DAY,
     1 - SECONDS_PER_DAY, 0 - (SECONDS_PER_DAY \div 2), 0 - 1, 0, 1,
     SECONDS_PER_DAY \div 2, SECONDS_PER_DAY, 2 * SECONDS_PER_DAY}

UtcInstants == RowInstants \cup ExpiryDates

TaiInstants ==
    {RowToUtc(LeapSecondRows[k])[1] + LeapSecondRows[k][3] :
        k \in {j \in 1..Len(LeapSecondRows) : RowYearOk(LeapSecondRows[j])}}
    \cup {e + off : e \in ExpiryDates, off \in RowOffsets}

\* UTC arguments are whole seconds; TAI arguments also come one
\* 1/SECONDS_PER_DAY of a second below and above each instant.
UtcQueries == {Whole(t + d) : t \in UtcInstants, d \in Deltas}

TaiQueries ==
    {Whole(t + d) : t \in TaiInstants, d \in Deltas}
    \cup {<<t - 1, SECONDS_PER_DAY - 1>> : t \in TaiInstants}
    \cup {<<t, 1>> : t \in TaiInstants}

(***************************************************************************)
(* A caller of the conversions.  A call reads the global table once (the   *)
(* "local pointer" of lines 178 and 238) and then computes on that value.  *)
(***************************************************************************)
NoCall == [fn |-> "none", arg |-> <<0, 0>>, res |-> Raise("none")]

IdleReader == [pc |-> "idle", fn |-> "none", arg |-> <<0, 0>>, tbl |-> None,
               res |-> Raise("none")]

LastCall == [fn |-> rd.fn, arg |-> rd.arg, res |-> rd.res]

\* A fresh call, or a call on the value the previous call returned.  The
\* functions exist from lines 146 and 206 on, before line 314 publishes the
\* first table; a failed import leaves no module to call.
Enter(fn, arg, tbl, chained) ==
    /\ main # "import_failed"
    /\ rd.pc = "idle"
    /\ rd' = [pc |-> "called", fn |-> fn, arg |-> arg, tbl |-> tbl,
              res |-> Raise("none")]
    /\ prev' = IF chained THEN LastCall ELSE NoCall

Call_tai_from_utc_unix(utc_unix) ==
    /\ Enter("tai_from_utc_unix", utc_unix, UTC_LEAP_SECOND_TABLE, FALSE)
    /\ UNCHANGED <<tables, life, aside>>

Call_utc_from_tai_unix(tai_unix) ==
    /\ Enter("utc_from_tai_unix", tai_unix, TAI_LEAP_SECOND_TABLE, FALSE)
    /\ UNCHANGED <<tables, life, aside>>

Chain_tai_from_utc_unix ==
    /\ rd.fn = "utc_from_tai_unix" /\ rd.res.status = "ok"
    /\ rd.res.val[2] = 0
    /\ Enter("tai_from_utc_unix", rd.res.val, UTC_LEAP_SECOND_TABLE, TRUE)
    /\ UNCHANGED <<tables, life, aside>>

Chain_utc_from_tai_unix ==
    /\ rd.fn = "tai_from_utc_unix" /\ rd.res.status = "ok"
    /\ Enter("utc_from_tai_unix", rd.res.val, TAI_LEAP_SECOND_TABLE, TRUE)
    /\ UNCHANGED <<tables, life, aside>>

\* A variant that reads the global table again when it computes.
Return_tai_from_utc_unix_Rereads ==
    /\ rd.pc = "called" /\ rd.fn = "tai_from_utc_unix"
    /\ rd' = [rd EXCEPT !.pc = "idle",
                        !.res = tai_from_utc_unix(UTC_LEAP_SECOND_TABLE,
                                                  rd.arg)]
    /\ UNCHANGED <<tables, life, prev, aside>>

Return_tai_from_utc_unix ==
    /\ rd.pc = "called" /\ rd.fn = "tai_from_utc_unix"
    /\ rd' = [rd EXCEPT !.pc = "idle",
                        !.res = tai_from_utc_unix(rd.tbl, rd.arg)]
    /\ UNCHANGED <<tables, life, prev, aside>>

Return_utc_from_tai_unix ==
    /\ rd.pc = "called" /\ rd.fn = "utc_from_tai_unix"
    /\ rd' = [rd EXCEPT !.pc = "idle",
                        !.res = utc_from_tai_unix(rd.tbl, rd.arg)]
    /\ UNCHANGED <<tables, life, prev, aside>>

Convert ==
    \/ \E utc_unix \in UtcQueries : Call_tai_from_utc_unix(utc_unix)
    \/ \E tai_unix \in TaiQueries : Call_utc_from_tai_unix(tai_unix)
    \/ Chain_tai_from_utc_unix
    \/ Chain_utc_from_tai_unix
    \/ Return_tai_from_utc_unix
    \/ Return_utc_from_tai_unix

(***************************************************************************)
(* current_tai, tai.py:92-94 and 317-372                                   *)
(***************************************************************************)
\* time.time() returned without conversion.
current_tai_from_utc_Unconverted(utc_leap_second_table, t) == Ok(Whole(t))

current_tai_from_utc(utc_leap_second_table, t) ==
    \* line 94: tai_from_utc_unix(time.time())
    tai_from_utc_unix(utc_leap_second_table, Whole(t))

\* time.clock_gettime(CLOCK_TAI), lines 337-339: the system clock plus what
\* the kernel's TAI clock is ahead of it (the TAI-UTC offset the kernel was
\* given, 0 where nobody set it, and the error of that clock), or OSError
\* where the clock is not supported.
system_tai(clock_tai_fails, kernel_offset, t) ==
    IF clock_tai_fails THEN Raise("OSError")
    ELSE Ok(Norm(t + kernel_offset[1], kernel_offset[2]))

AbsNum(a) == IF a[1] < 0 THEN Norm(0 - a[1], 0 - a[2]) ELSE a

\* 1.1 seconds, line 356
ProbeMargin == <<1, SECONDS_PER_DAY \div 10>>

Unset == [src |-> "unset", off |-> Whole(0)]
ComputedFromUtc == [src |-> "current_tai_from_utc", off |-> Whole(0)]
SystemAtomicClock(kernel_offset) == [src |-> "system_tai", off |-> kernel_offset]

\* A variant that refuses the system clock at a difference of exactly 1.1 s.
get_current_tai_function_Strict(has_clock_gettime, clock_tai_fails, kernel_offset, table, t) ==
    IF ~has_clock_gettime \/ clock_tai_fails THEN ComputedFromUtc
    ELSE IF current_tai_from_utc(table, t).status # "ok" THEN ComputedFromUtc
    ELSE IF NumLeq(ProbeMargin,
                   AbsNum(NumDiff(current_tai_from_utc(table, t).val,
                                  system_tai(FALSE, kernel_offset, t).val)))
         THEN ComputedFromUtc
    ELSE SystemAtomicClock(kernel_offset)

get_current_tai_function(has_clock_gettime, clock_tai_fails, kernel_offset, table, t) ==
    IF ~has_clock_gettime THEN ComputedFromUtc                 \* lines 326-330
    ELSE LET tslow == current_tai_from_utc(table, t)
             tfast == system_tai(clock_tai_fails, kernel_offset, t)
         IN  IF tslow.status # "ok" THEN ComputedFromUtc       \* lines 365-369
             ELSE IF tfast.status # "ok" THEN ComputedFromUtc  \* lines 347-351
             ELSE IF NumLess(ProbeMargin,
                             AbsNum(NumDiff(tslow.val, tfast.val)))
                  THEN ComputedFromUtc                         \* lines 356-361
             ELSE SystemAtomicClock(kernel_offset)             \* line 364

KernelOffsets == {Whole(0), Whole(37)}

\* A platform: whether time.clock_gettime exists, whether CLOCK_TAI is
\* refused, and what the kernel's TAI clock is ahead of time.time().
PlatformsWith(offsets) ==
    [has_clock_gettime : BOOLEAN, clock_tai_fails : BOOLEAN,
     kernel_offset : offsets]

Platforms == PlatformsWith(KernelOffsets)

Call_current_tai ==
    /\ current_tai # Unset
    /\ Enter("current_tai", Whole(now),
             IF current_tai = ComputedFromUtc
             THEN UTC_LEAP_SECOND_TABLE ELSE None, FALSE)
    /\ UNCHANGED <<tables, life, aside>>

\* A variant that compares the two sources again on every call.
Return_current_tai_Reprobes ==
    /\ rd.pc = "called" /\ rd.fn = "current_tai"
    /\ rd' = [rd EXCEPT !.pc = "idle",
                        !.res = system_tai(FALSE, current_tai.off, rd.arg[1])]
    /\ current_tai' = get_current_tai_function(
                          TRUE, FALSE, current_tai.off,
                          UTC_LEAP_SECOND_TABLE, now)
    /\ UNCHANGED <<tables, LEAP_SECOND_TABLE_UPDATE_TIMER, timers, upd, main,
                   updates, now, prev, aside>>

Return_current_tai ==
    /\ rd.pc = "called" /\ rd.fn = "current_tai"
    /\ rd' = [rd EXCEPT
                !.pc = "idle",
                !.res = IF current_tai = ComputedFromUtc
                        THEN current_tai_from_utc(rd.tbl, rd.arg[1])
                        ELSE system_tai(FALSE, current_tai.off, rd.arg[1])]
    /\ UNCHANGED <<tables, life, prev, aside>>

(***************************************************************************)
(* index_generator, misc.py:31-77                                          *)
(***************************************************************************)
MaxIndex == 2

MaxYields == 5

IminError == "ValueError: imin must be less than imax"
I0Error == "ValueError: i0 must be >= imin and <= imax"

\* An optional int: <<>> for None, <<n>> for n.
Some(n) == <<n>>

\* Line 60
InitialIndex(imin, i0) == IF i0 = None THEN imin ELSE i0[1]

\* A variant that leaves the check of i0 to the first next().
ArgsError_Deferred(imin, imax, i0) ==
    IF imax <= imin THEN IminError ELSE ""

\* Lines 61-64: the error the call raises, "" for none.
ArgsError(imin, imax, i0) ==
    IF imax <= imin THEN IminError
    ELSE IF ~(imin <= InitialIndex(imin, i0) /\ InitialIndex(imin, i0) <= imax)
         THEN I0Error
         ELSE ""

\* A variant that wraps one step late.
StepIndex_Late(index, imin, imax) ==
    IF index + 1 > imax + 1 THEN imin ELSE index + 1

\* Lines 71-73
StepIndex(index, imin, imax) ==
    IF index + 1 > imax THEN imin ELSE index + 1

NoGenerator == [pc |-> "none", imin |-> 0, imax |-> 0, i0 |-> None,
                err |-> "", index |-> 0, out |-> <<>>]

\* Lines 58-64 and 77: the arguments are checked in the call; index_impl()
\* only creates the generator, whose body has not started.
Call_index_generator(imin, imax, i0) ==
    /\ gen.pc = "none"
    /\ gen' = IF ArgsError(imin, imax, i0) # ""
              THEN [NoGenerator EXCEPT !.pc = "raised", !.imin = imin,
                                       !.imax = imax, !.i0 = i0,
                                       !.err = ArgsError(imin, imax, i0)]
              ELSE [NoGenerator EXCEPT !.pc = "created", !.imin = imin,
                                       !.imax = imax, !.i0 = i0]
    /\ UNCHANGED <<tables, life, rd, prev, os_environ, ctx, platform, source>>

\* next(): line 69 on the first one, then lines 71-75 up to the yield.
Next_index_impl ==
    /\ gen.pc \in {"created", "suspended"}
    /\ Len(gen.out) < MaxYields
    /\ LET index == IF gen.pc = "created"
                     THEN InitialIndex(gen.imin, gen.i0) - 1
                     ELSE gen.index
           yielded == StepIndex(index, gen.imin, gen.imax)
       IN  gen' = [gen EXCEPT !.pc = "suspended", !.index = yielded,
                              !.out = Append(gen.out, yielded)]
    /\ UNCHANGED <<tables, life, rd, prev, os_environ, ctx, platform, source>>

\* The arguments index_generator is called with.
IndexArgs == (0 - 1)..MaxIndex

InitialArgs == {None} \cup {Some(n) : n \in (0 - 2)..(MaxIndex + 1)}

(***************************************************************************)
(* modify_environ, testutils.py:61-115.  A mapping is a function from the  *)
(* names it holds to strings; os_environ is the content of the process's   *)
(* own os.environ object, which unittest.mock.patch puts aside while the   *)
(* context is open.                                                        *)
(***************************************************************************)
EnvNames == {"HOME", "ENV_TO_SET"}

EnvStrings == {"a", "b"}

\* A keyword argument: a str, None, or a value of another type.
StrValue(v) == [type |-> "str", val |-> v]
NoneValue == [type |-> "NoneType", val |-> ""]
IntValue == [type |-> "int", val |-> "1"]

KwargValues == {StrValue(v) : v \in EnvStrings} \cup {NoneValue, IntValue}

Mappings(values) == UNION {[names -> values] : names \in SUBSET EnvNames}

\* Lines 97-101
bad_value_strs(kwargs) ==
    {name \in DOMAIN kwargs : kwargs[name].type \notin {"str", "NoneType"}}

BadValueError == "RuntimeError: The following arguments are not of type str or None"

\* dict.pop(name, None)
Pop(environ, name) ==
    [n \in DOMAIN environ \ {name} |-> environ[n]]

\* dict[name] = value
SetItem(environ, name, value) ==
    [n \in DOMAIN environ \cup {name} |->
        IF n = name THEN value ELSE environ[n]]

\* A variant that skips the names given None.
ApplyKwarg_KeepsNone(environ, name, value) ==
    IF value.type = "NoneType" THEN environ
    ELSE SetItem(environ, name, value.val)

\* Lines 110-113
ApplyKwarg(environ, name, value) ==
    IF value.type = "NoneType" THEN Pop(environ, name)
    ELSE SetItem(environ, name, value.val)

\* Lines 108-113: the loop over kwargs.items(), on a copy.
RECURSIVE NewEnviron(_, _, _)
NewEnviron(environ, kwargs, names) ==
    IF names = {} THEN environ
    ELSE LET name == CHOOSE n \in names : TRUE
         IN  NewEnviron(ApplyKwarg(environ, name, kwargs[name]), kwargs,
                        names \ {name})

NoContext == [pc |-> "out", kwargs |-> <<>>, before |-> <<>>,
              new_environ |-> <<>>, err |-> "", exit |-> ""]

\* What the name os.environ gives: the patched-in copy inside the context.
Environ == IF ctx.pc = "in" THEN ctx.new_environ ELSE os_environ

\* The with statement enters: lines 97-114 up to the yield.
Enter_modify_environ(kwargs) ==
    /\ ctx.pc = "out"
    /\ ctx' = IF bad_value_strs(kwargs) # {}
              THEN [NoContext EXCEPT !.pc = "raised", !.kwargs = kwargs,
                                     !.before = os_environ,
                                     !.err = BadValueError]
              ELSE [NoContext EXCEPT !.pc = "in", !.kwargs = kwargs,
                                     !.before = os_environ,
                                     !.new_environ =
                                         NewEnviron(os_environ, kwargs,
                                                    DOMAIN kwargs)]
    /\ UNCHANGED <<tables, life, rd, prev, gen, os_environ, platform, source>>

\* The body of the with statement assigns to os.environ[name].
Body_setitem(name, value) ==
    /\ ctx.pc = "in"
    /\ ctx' = [ctx EXCEPT !.new_environ = SetItem(ctx.new_environ, name, value)]
    /\ UNCHANGED <<tables, life, rd, prev, gen, os_environ, platform, source>>

\* The body of the with statement deletes os.environ[name].
Body_delitem(name) ==
    /\ ctx.pc = "in"
    /\ name \in DOMAIN ctx.new_environ
    /\ ctx' = [ctx EXCEPT !.new_environ = Pop(ctx.new_environ, name)]
    /\ UNCHANGED <<tables, life, rd, prev, gen, os_environ, platform, source>>

\* Lines 114-115: the body ends, by its last statement or by an exception;
\* patch restores the object it put aside either way.
Exit_modify_environ(how) ==
    /\ ctx.pc = "in"
    /\ ctx' = [ctx EXCEPT !.pc = "exited", !.new_environ = <<>>, !.exit = how]
    /\ UNCHANGED <<tables, life, rd, prev, gen, os_environ, platform, source>>

(***************************************************************************)
(* _update_leap_second_table, tai.py:259-311, one step per access to a     *)
(* global; thread 0 is the importing thread, thread i the thread of        *)
(* timer i.                                                                *)
(***************************************************************************)
MaxUpdates == 2

LEAP_SECOND_TABLE_UPDATE_MARGIN_DAYS == 10

Threads == 0..MaxUpdates

IdleUpdate == [pc |-> "idle", utc |-> None, tai |-> None, expiry |-> 0,
               delay |-> 0]

NewTimer(interval) ==
    [interval |-> interval, daemon |-> FALSE, started |-> FALSE,
     cancelled |-> FALSE, fired |-> FALSE, due |-> 0]

\* Started, not fired, not cancelled.
Armed(tm) == tm.started /\ ~tm.cancelled /\ ~tm.fired

\* No update is running in the thread.
Ended(u) == u.pc \in {"idle", "raised in fetch", "raised in daemon",
                      "raised in start"}

\* The exception leaves the function, nothing catches it: the import fails,
\* the explicit caller gets it, or the timer's thread ends.
UpdateRaises(th) ==
    /\ upd' = [upd EXCEPT ![th] =
                  [IdleUpdate EXCEPT !.pc = "raised in " \o upd[th].pc]]
    /\ main' = IF th = 0 /\ main = "load" THEN "import_failed" ELSE main

\* What the update running at line 314 leaves to the importing thread.
UpdateReturns(th) ==
    /\ upd' = [upd EXCEPT ![th] = IdleUpdate]
    /\ main' = IF th = 0 /\ main = "load" THEN "probe" ELSE main

\* What auto_open() delivers while the process runs, as <<rows, expiry>>:
\* a file with no row from 1972 on, the table before the leap second of
\* 2017-01-01 was announced, and the table after.
LiveApTables ==
    {<<PickRows({1}), UnixOfDate(2017, 6, 28)>>,
     <<PickRows({2, 4}), UnixOfDate(2017, 6, 28)>>,
     <<PickRows({2, 4, 5}), UnixOfDate(2017, 12, 28)>>}

\* A variant that withdraws the published tables when the fetch fails.
Upd_Fetch_Withdraws(th) ==
    /\ upd[th].pc = "fetch"
    /\ \/ /\ UpdateRaises(th)
          /\ UTC_LEAP_SECOND_TABLE' = None
          /\ TAI_LEAP_SECOND_TABLE' = None
       \/ \E ap_table \in source :
             /\ ~BuildFails(ap_table[1])
             /\ upd' = [upd EXCEPT ![th] =
                   [pc |-> "store_utc",
                    utc |-> BuildUtcTable(ap_table[1], ap_table[2]),
                    tai |-> BuildTaiTable(
                                BuildUtcTable(ap_table[1], ap_table[2])),
                    expiry |-> ap_table[2], delay |-> 0]]
             /\ UNCHANGED <<main, tables>>
    /\ UNCHANGED <<LEAP_SECOND_TABLE_UPDATE_TIMER, current_tai,
                   timers, updates, now, rd, prev, aside>>

\* Lines 277-294: fetch and build, on locals only.
Upd_Fetch(th) ==
    /\ upd[th].pc = "fetch"
    /\ \/ UpdateRaises(th)                        \* auto_open() raises
       \/ \E ap_table \in source :
             LET ap_rows == ap_table[1]
                 expiry == ap_table[2]
             IN  IF BuildFails(ap_rows)
                 THEN UpdateRaises(th)
                 ELSE /\ upd' = [upd EXCEPT ![th] =
                           [pc |-> "store_utc",
                            utc |-> BuildUtcTable(ap_rows, expiry),
                            tai |-> BuildTaiTable(
                                        BuildUtcTable(ap_rows, expiry)),
                            expiry |-> expiry, delay |-> 0]]
                      /\ UNCHANGED main
    /\ UNCHANGED <<tables, LEAP_SECOND_TABLE_UPDATE_TIMER, current_tai,
                   timers, updates, now, rd, prev, aside>>

\* Line 295
Upd_StoreUtc(th) ==
    /\ upd[th].pc = "store_utc"
    /\ UTC_LEAP_SECOND_TABLE' = upd[th].utc
    /\ upd' = [upd EXCEPT ![th].pc = "store_tai"]
    /\ UNCHANGED <<TAI_LEAP_SECOND_TABLE, LEAP_SECOND_TABLE_UPDATE_TIMER,
                   current_tai, timers, main, updates, now, rd, prev, aside>>

\* Line 296
Upd_StoreTai(th) ==
    /\ upd[th].pc = "store_tai"
    /\ TAI_LEAP_SECOND_TABLE' = upd[th].tai
    /\ upd' = [upd EXCEPT ![th].pc = "cancel"]
    /\ UNCHANGED <<UTC_LEAP_SECOND_TABLE, LEAP_SECOND_TABLE_UPDATE_TIMER,
                   current_tai, timers, main, updates, now, rd, prev, aside>>

\* A variant that never goes below 0.
UpdateDelay_Clamped(expiry_date_utc_unix, t) ==
    IF expiry_date_utc_unix
           - LEAP_SECOND_TABLE_UPDATE_MARGIN_DAYS * SECONDS_PER_DAY - t < 0
    THEN 0
    ELSE expiry_date_utc_unix
             - LEAP_SECOND_TABLE_UPDATE_MARGIN_DAYS * SECONDS_PER_DAY - t

UpdateDelay(expiry_date_utc_unix, t) ==
    \* lines 298-301
    expiry_date_utc_unix
        - LEAP_SECOND_TABLE_UPDATE_MARGIN_DAYS * SECONDS_PER_DAY - t

\* Lines 298-303: the clock is read, then the timer in the global, if any,
\* is cancelled.
Upd_Cancel(th) ==
    /\ upd[th].pc = "cancel"
    /\ timers' = IF LEAP_SECOND_TABLE_UPDATE_TIMER = 0 THEN timers
                 ELSE [timers EXCEPT
                         ![LEAP_SECOND_TABLE_UPDATE_TIMER].cancelled = TRUE]
    /\ upd' = [upd EXCEPT ![th].pc = "create",
                          ![th].delay = UpdateDelay(upd[th].expiry, now)]
    /\ UNCHANGED <<tables, LEAP_SECOND_TABLE_UPDATE_TIMER, current_tai,
                   main, updates, now, rd, prev, aside>>

\* Lines 307-309
Upd_Create(th) ==
    /\ upd[th].pc = "create"
    /\ timers' = Append(timers, NewTimer(upd[th].delay))
    /\ LEAP_SECOND_TABLE_UPDATE_TIMER' = Len(timers) + 1
    /\ upd' = [upd EXCEPT ![th].pc = "daemon"]
    /\ UNCHANGED <<tables, current_tai, main, updates, now, rd, prev, aside>>

\* Line 310: a started thread refuses a change of its daemon flag.
Upd_Daemon(th) ==
    /\ upd[th].pc = "daemon"
    /\ IF timers[LEAP_SECOND_TABLE_UPDATE_TIMER].started
       THEN UpdateRaises(th) /\ UNCHANGED timers
       ELSE /\ timers' = [timers EXCEPT
                            ![LEAP_SECOND_TABLE_UPDATE_TIMER].daemon = TRUE]
            /\ upd' = [upd EXCEPT ![th].pc = "start"]
            /\ UNCHANGED main
    /\ UNCHANGED <<tables, LEAP_SECOND_TABLE_UPDATE_TIMER, current_tai,
                   updates, now, rd, prev, aside>>

\* Line 311: a thread can be started only once.
Upd_Start(th) ==
    /\ upd[th].pc = "start"
    /\ IF timers[LEAP_SECOND_TABLE_UPDATE_TIMER].started
       THEN UpdateRaises(th) /\ UNCHANGED timers
       ELSE /\ timers' = [timers EXCEPT
                 ![LEAP_SECOND_TABLE_UPDATE_TIMER].started = TRUE,
                 ![LEAP_SECOND_TABLE_UPDATE_TIMER].due =
                     now + timers[LEAP_SECOND_TABLE_UPDATE_TIMER].interval]
            /\ UpdateReturns(th)
    /\ UNCHANGED <<tables, LEAP_SECOND_TABLE_UPDATE_TIMER, current_tai,
                   updates, now, rd, prev, aside>>

\* threading.Timer.run: the interval has passed and cancel() was not called.
Timer_Fire(i) ==
    /\ i \in 1..Len(timers)
    /\ Armed(timers[i])
    /\ timers[i].due <= now
    /\ updates < MaxUpdates
    /\ timers' = [timers EXCEPT ![i].fired = TRUE]
    /\ upd' = [upd EXCEPT ![i].pc = "fetch"]
    /\ updates' = updates + 1
    /\ UNCHANGED <<tables, LEAP_SECOND_TABLE_UPDATE_TIMER, current_tai, main,
                   now, rd, prev, aside>>

\* An explicit call of _update_leap_second_table() after the import.
Call_update_leap_second_table ==
    /\ main = "running"
    /\ Ended(upd[0])
    /\ updates < MaxUpdates
    /\ upd' = [upd EXCEPT ![0] = [IdleUpdate EXCEPT !.pc = "fetch"]]
    /\ updates' = updates + 1
    /\ UNCHANGED <<tables, LEAP_SECOND_TABLE_UPDATE_TIMER, current_tai,
                   timers, main, now, rd, prev, aside>>

\* Line 372, run by the import right after line 314 returned.
Probe ==
    /\ main = "probe"
    /\ \E p \in platform :
          current_tai' = get_current_tai_function(
                             p.has_clock_gettime, p.clock_tai_fails,
                             p.kernel_offset, UTC_LEAP_SECOND_TABLE, now)
    /\ main' = "running"
    /\ UNCHANGED <<tables, LEAP_SECOND_TABLE_UPDATE_TIMER, timers, upd,
                   updates, now, rd, prev, aside>>

\* The instants the clock is read at: a day before the update date of the
\* earlier expiry date, that update date, and that expiry date.
NowInstants ==
    {UnixOfDate(2017, 6, 28) - d * SECONDS_PER_DAY :
        d \in {LEAP_SECOND_TABLE_UPDATE_MARGIN_DAYS + 1,
               LEAP_SECOND_TABLE_UPDATE_MARGIN_DAYS, 0}}

\* Time passes; a timer that is due fires before it passes further.
Tick ==
    /\ \E t \in NowInstants : t > now /\ now' = t
    /\ \/ updates >= MaxUpdates
       \/ \A i \in 1..Len(timers) : Armed(timers[i]) => timers[i].due > now
    /\ UNCHANGED <<tables, LEAP_SECOND_TABLE_UPDATE_TIMER, current_tai,
                   timers, upd, main, updates, rd, prev, aside>>

\* The conversions called while the process runs.
LiveUtcQueries ==
    {Whole(UnixOfDate(1972, 1, 1) - 1),
     Whole(UnixOfDate(2017, 12, 28) - SECONDS_PER_DAY)}

LiveTaiQueries ==
    {Whole(UnixOfDate(1972, 1, 1) + 10), Whole(UnixOfDate(2017, 6, 28) + 37)}

Init ==
    /\ UTC_LEAP_SECOND_TABLE = None
    /\ TAI_LEAP_SECOND_TABLE = None
    /\ LEAP_SECOND_TABLE_UPDATE_TIMER = 0
    /\ current_tai = Unset
    /\ timers = <<>>
    /\ upd = [th \in Threads |-> IF th = 0 THEN [IdleUpdate EXCEPT !.pc = "fetch"]
                                 ELSE IdleUpdate]
    /\ main = "load"
    /\ updates = 1
    /\ now \in NowInstants
    /\ rd = IdleReader
    /\ prev = NoCall
    /\ gen = NoGenerator
    /\ os_environ = <<>>
    /\ ctx = NoContext
    /\ platform = Platforms
    /\ source = LiveApTables

Next ==
    \/ \E th \in Threads : Upd_Fetch(th)
    \/ \E th \in Threads : Upd_StoreUtc(th)
    \/ \E th \in Threads : Upd_StoreTai(th)
    \/ \E th \in Threads : Upd_Cancel(th)
    \/ \E th \in Threads : Upd_Create(th)
    \/ \E th \in Threads : Upd_Daemon(th)
    \/ \E th \in Threads : Upd_Start(th)
    \/ \E i \in 1..MaxUpdates : Timer_Fire(i)
    \/ Call_update_leap_second_table
    \/ Probe
    \/ Tick
    \/ \E utc_unix \in LiveUtcQueries : Call_tai_from_utc_unix(utc_unix)
    \/ \E tai_unix \in LiveTaiQueries : Call_utc_from_tai_unix(tai_unix)
    \/ Call_current_tai
    \/ Return_tai_from_utc_unix
    \/ Return_utc_from_tai_unix
    \/ Return_current_tai

Spec == Init /\ [][Next]_vars

(***************************************************************************)
(* SpecConv: the conversions on any one published table.                   *)
(***************************************************************************)
InitConv ==
    /\ \E ap_rows \in ApTables, expiry \in ExpiryDates :
          /\ ~BuildFails(ap_rows)
          /\ UTC_LEAP_SECOND_TABLE = BuildUtcTable(ap_rows, expiry)
          /\ TAI_LEAP_SECOND_TABLE =
                 BuildTaiTable(BuildUtcTable(ap_rows, expiry))
    /\ LEAP_SECOND_TABLE_UPDATE_TIMER = 0
    /\ current_tai = Unset
    /\ timers = <<>>
    /\ upd = [th \in Threads |-> IdleUpdate]
    /\ main = "running"
    /\ updates = MaxUpdates
    /\ now = 0
    /\ rd = IdleReader
    /\ prev = NoCall
    /\ gen = NoGenerator
    /\ os_environ = <<>>
    /\ ctx = NoContext
    /\ platform = Platforms
    /\ source = LiveApTables

NextConv == Convert

SpecConv == InitConv /\ [][NextConv]_vars

(***************************************************************************)
(* SpecFloat: the conversions on any one published table, called with any  *)
(* float: the arguments are annotated float (lines 146 and 206) and        *)
(* float("nan") is one.                                                    *)
(***************************************************************************)
FloatUtcQueries == UtcQueries \cup {NaN}

FloatTaiQueries == TaiQueries \cup {NaN}

NextFloat ==
    \/ \E utc_unix \in FloatUtcQueries : Call_tai_from_utc_unix(utc_unix)
    \/ \E tai_unix \in FloatTaiQueries : Call_utc_from_tai_unix(tai_unix)
    \/ Return_tai_from_utc_unix
    \/ Return_utc_from_tai_unix

SpecFloat == InitConv /\ [][NextFloat]_vars

(***************************************************************************)
(* SpecOverlap: the updates alone, with room for an explicit update and a  *)
(* timer's update after the one of the import; no conversion is called.    *)
(***************************************************************************)
InitOverlap ==
    /\ UTC_LEAP_SECOND_TABLE = None
    /\ TAI_LEAP_SECOND_TABLE = None
    /\ LEAP_SECOND_TABLE_UPDATE_TIMER = 0
    /\ current_tai = Unset
    /\ timers = <<>>
    /\ upd = [th \in Threads |-> IF th = 0 THEN [IdleUpdate EXCEPT !.pc = "fetch"]
                                 ELSE IdleUpdate]
    /\ main = "load"
    /\ updates = 0
    /\ now \in NowInstants
    /\ rd = IdleReader
    /\ prev = NoCall
    /\ gen = NoGenerator
    /\ os_environ = <<>>
    /\ ctx = NoContext
    /\ platform = Platforms
    /\ source = LiveApTables

NextOverlap ==
    \/ \E th \in Threads : Upd_Fetch(th)
    \/ \E th \in Threads : Upd_StoreUtc(th)
    \/ \E th \in Threads : Upd_StoreTai(th)
    \/ \E th \in Threads : Upd_Cancel(th)
    \/ \E th \in Threads : Upd_Create(th)
    \/ \E th \in Threads : Upd_Daemon(th)
    \/ \E th \in Threads : Upd_Start(th)
    \/ \E i \in 1..MaxUpdates : Timer_Fire(i)
    \/ Call_update_leap_second_table
    \/ Probe
    \/ Tick

SpecOverlap == InitOverlap /\ [][NextOverlap]_vars

(***************************************************************************)
(* SpecProbe: the choice of the clock source at line 372, on any published *)
(* table and any one platform, and the calls of current_tai() after it.    *)
(***************************************************************************)
\* What the kernel's TAI clock may be ahead of time.time(): nothing, the
\* TAI-UTC of 2017, and that offset with 1.1 s, or a little more, either way.
ProbeOffsets ==
    KernelOffsets
        \cup {Norm(37 + s * ProbeMargin[1], s * (ProbeMargin[2] + e)) :
                 s \in {0 - 1, 1}, e \in {0, 1}}

\* The instants of the import: in the smear day before 2017-01-01, in the
\* spring of 2017, and on the earlier expiry date.
ProbeInstants ==
    {UnixOfDate(2016, 12, 31) + SECONDS_PER_DAY \div 2,
     UnixOfDate(2017, 3, 1), UnixOfDate(2017, 6, 28)}

InitProbe ==
    /\ \E ap_rows \in ApTables, expiry \in ExpiryDates :
          /\ ~BuildFails(ap_rows)
          /\ UTC_LEAP_SECOND_TABLE = BuildUtcTable(ap_rows, expiry)
          /\ TAI_LEAP_SECOND_TABLE =
                 BuildTaiTable(BuildUtcTable(ap_rows, expiry))
          /\ now \in ProbeInstants
          /\ timers = <<[NewTimer(UpdateDelay(expiry, now)) EXCEPT
                            !.daemon = TRUE, !.started = TRUE,
                            !.due = now + UpdateDelay(expiry, now)]>>
    /\ LEAP_SECOND_TABLE_UPDATE_TIMER = 1
    /\ current_tai = Unset
    /\ upd = [th \in Threads |-> IdleUpdate]
    /\ main = "probe"
    /\ updates = MaxUpdates
    /\ rd = IdleReader
    /\ prev = NoCall
    /\ gen = NoGenerator
    /\ os_environ = <<>>
    /\ ctx = NoContext
    /\ platform \in {{p} : p \in PlatformsWith(ProbeOffsets)}
    /\ source = LiveApTables

NextProbe ==
    \/ Probe
    \/ Call_current_tai
    \/ Return_current_tai

SpecProbe == InitProbe /\ [][NextProbe]_vars

(***************************************************************************)
(* SpecBuild: the update of the import on any one file, its rows in any    *)
(* order, none of them or some of them from 1972 on.                       *)
(***************************************************************************)
\* The sequences of at most MaxRows different rows, in any order.
RECURSIVE RowSequences(_)
RowSequences(n) ==
    IF n = 0 THEN {<<>>}
    ELSE RowSequences(n - 1)
         \cup {Append(rows, LeapSecondRows[k]) :
                  rows \in {r \in RowSequences(n - 1) : Len(r) = n - 1},
                  k \in 1..Len(LeapSecondRows)}

AnyApTables ==
    {rows \in RowSequences(MaxRows) :
        \A i \in 1..Len(rows), j \in 1..Len(rows) :
            rows[i] = rows[j] => i = j}

InitBuild ==
    /\ UTC_LEAP_SECOND_TABLE = None
    /\ TAI_LEAP_SECOND_TABLE = None
    /\ LEAP_SECOND_TABLE_UPDATE_TIMER = 0
    /\ current_tai = Unset
    /\ timers = <<>>
    /\ upd = [th \in Threads |-> IF th = 0 THEN [IdleUpdate EXCEPT !.pc = "fetch"]
                                 ELSE IdleUpdate]
    /\ main = "load"
    /\ updates = MaxUpdates
    /\ now \in NowInstants
    /\ rd = IdleReader
    /\ prev = NoCall
    /\ gen = NoGenerator
    /\ os_environ = <<>>
    /\ ctx = NoContext
    /\ platform = Platforms
    /\ source \in {{<<ap_rows, expiry>>} :
                      ap_rows \in AnyApTables, expiry \in ExpiryDates}

NextBuild ==
    \/ \E th \in Threads : Upd_Fetch(th)
    \/ \E th \in Threads : Upd_StoreUtc(th)
    \/ \E th \in Threads : Upd_StoreTai(th)
    \/ \E th \in Threads : Upd_Cancel(th)
    \/ \E th \in Threads : Upd_Create(th)
    \/ \E th \in Threads : Upd_Daemon(th)
    \/ \E th \in Threads : Upd_Start(th)

SpecBuild == InitBuild /\ [][NextBuild]_vars

\* The conversions and the update take no part in the two specifications
\* below.
Aside ==
    /\ UTC_LEAP_SECOND_TABLE = None
    /\ TAI_LEAP_SECOND_TABLE = None
    /\ LEAP_SECOND_TABLE_UPDATE_TIMER = 0
    /\ current_tai = Unset
    /\ timers = <<>>
    /\ upd = [th \in Threads |-> IdleUpdate]
    /\ main = "running"
    /\ updates = MaxUpdates
    /\ now = 0
    /\ rd = IdleReader
    /\ prev = NoCall

(***************************************************************************)
(* SpecIndex: one call of index_generator and the next() calls on it.      *)
(***************************************************************************)
InitIndex ==
    /\ Aside
    /\ gen = NoGenerator
    /\ os_environ = <<>>
    /\ ctx = NoContext
    /\ platform = Platforms
    /\ source = LiveApTables

NextIndex ==
    \/ \E imin \in IndexArgs, imax \in IndexArgs, i0 \in InitialArgs :
          Call_index_generator(imin, imax, i0)
    \/ Next_index_impl

SpecIndex == InitIndex /\ [][NextIndex]_vars

(***************************************************************************)
(* SpecEnviron: one modify_environ context on any environment.             *)
(***************************************************************************)
InitEnviron ==
    /\ Aside
    /\ gen = NoGenerator
    /\ os_environ \in Mappings(EnvStrings)
    /\ ctx = NoContext
    /\ platform = Platforms
    /\ source = LiveApTables

NextEnviron ==
    \/ \E kwargs \in Mappings(KwargValues) : Enter_modify_environ(kwargs)
    \/ \E name \in EnvNames, value \in EnvStrings : Body_setitem(name, value)
    \/ \E name \in EnvNames : Body_delitem(name)
    \/ \E how \in {"return", "exception"} : Exit_modify_environ(how)

SpecEnviron == InitEnviron /\ [][NextEnviron]_vars

(***************************************************************************)
(* Vocabulary of the claims                                                *)
(***************************************************************************)
Returned(fn) == rd.pc = "idle" /\ rd.fn = fn

\* The last row of table whose instant is <= x.
LastAtOrBefore(table, x) ==
    CHOOSE k \in 1..Len(table) :
        /\ NumLeq(Whole(table[k][1]), x)
        /\ \A j \in 1..Len(table) : NumLeq(Whole(table[j][1]), x) => j <= k

InTableRange(table, x, margin) ==
    /\ table # None
    /\ NumLeq(Whole(table[1][1]), x)
    /\ NumLeq(x, Whole(table[Len(table)][1] - margin))

\* Row k of a UTC table is a leap second: a real row that changes the offset.
IsLeap(table, k) ==
    /\ 1 < k /\ k < Len(table)
    /\ table[k][2] # table[k - 1][2]

\* C1: for first_entry.utc <= utc <= expiry - 86400, with k the last entry
\* at or before utc, tai_from_utc_unix(utc) - utc is off_k when
\* utc + 86400 <= utc_{k+1}, and off_k + (off_{k+1} - off_k) * frac(utc/86400)
\* when utc + 86400 > utc_{k+1}.
C1_OffsetRule ==
    (Returned("tai_from_utc_unix")
         /\ InTableRange(rd.tbl, rd.arg, SECONDS_PER_DAY) /\ rd.arg[2] = 0)
    => LET k == LastAtOrBefore(rd.tbl, rd.arg)
           off0 == rd.tbl[k][2]
           off1 == rd.tbl[k + 1][2]
           frac == rd.arg[1] % SECONDS_PER_DAY
       IN  /\ rd.res.status = "ok"
           /\ NumDiff(rd.res.val, rd.arg) =
                 IF rd.arg[1] + SECONDS_PER_DAY <= rd.tbl[k + 1][1]
                 THEN Whole(off0)
                 ELSE Norm(off0, (off1 - off0) * frac)

\* A call in the smear day before a leap second returned a fractional offset.
C1_Witness ==
    /\ Returned("tai_from_utc_unix") /\ rd.res.status = "ok"
    /\ \E k \in 1..Len(rd.tbl) :
          /\ IsLeap(rd.tbl, k)
          /\ rd.arg = Whole(rd.tbl[k][1] - (SECONDS_PER_DAY \div 2))
    /\ NumDiff(rd.res.val, rd.arg)[2] = SECONDS_PER_DAY \div 2

\* C2: tai_from_utc_unix(utc) returns a value iff
\* first_entry.utc <= utc <= expiry - 86400; at exactly expiry - 86400 it
\* returns utc + the final offset; above it fails with the expiry ValueError,
\* below the first entry with the start ValueError.
C2_UtcRange ==
    (Returned("tai_from_utc_unix") /\ rd.tbl # None)
    => LET first == Whole(rd.tbl[1][1])
           last == Whole(rd.tbl[Len(rd.tbl)][1] - SECONDS_PER_DAY)
       IN  /\ rd.res.status = "ok"
                 <=> (NumLeq(first, rd.arg) /\ NumLeq(rd.arg, last))
           /\ NumLess(last, rd.arg) => rd.res.status = ExpiryError
           /\ NumLess(rd.arg, first) => rd.res.status = StartError
           /\ rd.arg = last =>
                 rd.res.val = NumPlus(last, rd.tbl[Len(rd.tbl)][2])
           /\ rd.arg = first => rd.res.val = NumPlus(first, rd.tbl[1][2])

\* A call at exactly expiry - 86400 returned a value.
C2_Witness ==
    /\ Returned("tai_from_utc_unix") /\ rd.tbl # None
    /\ rd.arg = Whole(rd.tbl[Len(rd.tbl)][1] - SECONDS_PER_DAY)
    /\ rd.res.status = "ok"

\* C3: for tai in the TAI range of the table, tai - utc_from_tai_unix(tai)
\* is the offset of the last tai_ordered entry with tai_k <= tai: a whole
\* table offset, the old one just below a leap-second TAI instant and the
\* new one at and above it.
C3_TaiStep ==
    (Returned("utc_from_tai_unix") /\ InTableRange(rd.tbl, rd.arg, 0))
    => /\ rd.res.status = "ok"
       /\ NumDiff(rd.arg, rd.res.val) =
             Whole(rd.tbl[LastAtOrBefore(rd.tbl, rd.arg)][2])

\* A call 1/86400 s below a leap-second TAI instant returned the old offset.
C3_Witness ==
    /\ Returned("utc_from_tai_unix") /\ rd.res.status = "ok"
    /\ \E k \in 1..Len(rd.tbl) :
          /\ IsLeap(rd.tbl, k)
          /\ rd.arg = <<rd.tbl[k][1] - 1, SECONDS_PER_DAY - 1>>
          /\ NumDiff(rd.arg, rd.res.val) = Whole(rd.tbl[k - 1][2])

C5_OldOffsetOneSecondBefore ==
    (Returned("tai_from_utc_unix") /\ rd.tbl # None)
    => \A k \in 1..Len(rd.tbl) :
          IsLeap(rd.tbl, k) =>
             /\ rd.arg = Whole(rd.tbl[k][1] - 1) =>
                   rd.res = Ok(NumPlus(rd.arg, rd.tbl[k - 1][2]))
             /\ rd.arg = Whole(rd.tbl[k][1]) =>
                   rd.res = Ok(NumPlus(rd.arg, rd.tbl[k][2]))

\* C5 amended: one second before a leap second utc0 the offset is smeared,
\* tai_from_utc_unix(utc0 - 1) =
\*     (utc0 - 1) + off0 + (off1 - off0) * frac((utc0 - 1) / 86400),
\* and tai_from_utc_unix(utc0) = utc0 + off1.
C5_SmearedOneSecondBefore ==
    (Returned("tai_from_utc_unix") /\ rd.tbl # None)
    => \A k \in 1..Len(rd.tbl) :
          IsLeap(rd.tbl, k) =>
             /\ rd.arg = Whole(rd.tbl[k][1] - 1) =>
                   rd.res = Ok(Norm(rd.arg[1] + rd.tbl[k - 1][2],
                                    (rd.tbl[k][2] - rd.tbl[k - 1][2])
                                       * (rd.arg[1] % SECONDS_PER_DAY)))
             /\ rd.arg = Whole(rd.tbl[k][1]) =>
                   rd.res = Ok(NumPlus(rd.arg, rd.tbl[k][2]))

\* A call one second before a leap second returned.
C5_Witness ==
    /\ Returned("tai_from_utc_unix") /\ rd.tbl # None
    /\ \E k \in 1..Len(rd.tbl) :
          IsLeap(rd.tbl, k) /\ rd.arg = Whole(rd.tbl[k][1] - 1)
    /\ rd.res.status = "ok"

\* tai is in range and at least 2 days from every entry of the TAI table.
FarFromBoundaries(table, tai_unix) ==
    /\ InTableRange(table, tai_unix, 0)
    /\ \A k \in 1..Len(table) :
          \/ NumLeq(NumPlus(tai_unix, 2 * SECONDS_PER_DAY), Whole(table[k][1]))
          \/ NumLeq(Whole(table[k][1] + 2 * SECONDS_PER_DAY), tai_unix)

\* utc_from_tai_unix(tai) returned utc and tai_from_utc_unix(utc) returned.
RoundTripFromTai ==
    /\ Returned("tai_from_utc_unix")
    /\ prev.fn = "utc_from_tai_unix" /\ prev.res.status = "ok"
    /\ rd.arg = prev.res.val

\* C6: for tai in range and at least 2 days away from every table boundary,
\* tai_from_utc_unix(utc_from_tai_unix(tai)) = tai.
C6_RoundTrip ==
    (RoundTripFromTai /\ FarFromBoundaries(TAI_LEAP_SECOND_TABLE, prev.arg))
    => rd.res = Ok(prev.arg)

\* A round trip from exactly 2 days before a leap-second TAI instant.
C6_Witness ==
    /\ RoundTripFromTai
    /\ FarFromBoundaries(TAI_LEAP_SECOND_TABLE, prev.arg)
    /\ \E k \in 1..Len(UTC_LEAP_SECOND_TABLE) :
          /\ IsLeap(UTC_LEAP_SECOND_TABLE, k)
          /\ prev.arg = Whole(TAI_LEAP_SECOND_TABLE[k][1] - 2 * SECONDS_PER_DAY)
    /\ rd.res.status = "ok"

\* C7: tai_from_utc_unix is strictly increasing over the convertible range
\* of one table, and for each leap-second instant utc1
\* tai_from_utc_unix(utc1) - tai_from_utc_unix(utc1 - 86400)
\*     = 86400 + (off1 - off0).
C7_Monotonic ==
    (Returned("tai_from_utc_unix") /\ rd.res.status = "ok")
    => /\ \A b \in UtcQueries :
             (NumLess(rd.arg, b)
                  /\ tai_from_utc_unix(rd.tbl, b).status = "ok")
             => NumLess(rd.res.val, tai_from_utc_unix(rd.tbl, b).val)
       /\ \A k \in 1..Len(rd.tbl) :
             (IsLeap(rd.tbl, k)
                  /\ rd.arg = Whole(rd.tbl[k][1] - SECONDS_PER_DAY))
             => NumDiff(tai_from_utc_unix(rd.tbl, Whole(rd.tbl[k][1])).val,
                        rd.res.val)
                   = Whole(SECONDS_PER_DAY + rd.tbl[k][2] - rd.tbl[k - 1][2])

\* A call in the smear day before a leap second, below the leap instant.
C7_Witness ==
    /\ Returned("tai_from_utc_unix") /\ rd.res.status = "ok"
    /\ \E k \in 1..Len(rd.tbl) :
          /\ IsLeap(rd.tbl, k)
          /\ rd.arg = Whole(rd.tbl[k][1] - 1)
          /\ Whole(rd.tbl[k][1]) \in UtcQueries
          /\ NumLess(rd.res.val,
                     tai_from_utc_unix(rd.tbl, Whole(rd.tbl[k][1])).val)

\* C8: while no table is published, tai_from_utc_unix and utc_from_tai_unix
\* fail with RuntimeError "No leap second table" for every input, also for
\* one that no table could convert, and return no value.
C8_NoTable ==
    ((Returned("tai_from_utc_unix") \/ Returned("utc_from_tai_unix"))
         /\ rd.tbl = None)
    => rd.res.status = "RuntimeError: No leap second table"

\* A conversion of an instant before 1972, called before the first table
\* was published, has failed.
C8_Witness ==
    /\ Returned("tai_from_utc_unix") /\ rd.tbl = None
    /\ rd.arg = Whole(UnixOfDate(1972, 1, 1) - 1)
    /\ rd.res.status = "RuntimeError: No leap second table"

\* C9 as stated: once the clock source is selected, every call of
\* current_tai() returns a number.
C9_NeverFails == Returned("current_tai") => rd.res.status = "ok"

\* C9 amended: once the clock source is selected, current_tai() returns a
\* number when the source is the system TAI clock; when it is
\* current_tai_from_utc it returns a number exactly when
\* first_entry.utc <= time.time() <= expiry - 86400 on the table published
\* at the call, and fails with ValueError otherwise.
C9_FailsOutOfRange ==
    Returned("current_tai")
    => /\ current_tai.src = "system_tai" => rd.res.status = "ok"
       /\ current_tai.src = "current_tai_from_utc" =>
             /\ rd.res.status = "ok"
                   <=> InTableRange(rd.tbl, rd.arg, SECONDS_PER_DAY)
             /\ rd.res.status \in {"ok", ExpiryError, StartError}

\* current_tai(), dispatching to current_tai_from_utc, was called past the
\* last convertible instant of the published table and failed.
C9_Witness ==
    /\ Returned("current_tai")
    /\ current_tai = ComputedFromUtc
    /\ rd.tbl # None
    /\ rd.res.status = ExpiryError

\* C10: in no reachable state is the published UTC sequence from one table
\* version and the published TAI sequence from another: the TAI sequence is
\* the UTC sequence with each instant moved by its offset.
C10_AtomicPublish ==
    (UTC_LEAP_SECOND_TABLE # None /\ TAI_LEAP_SECOND_TABLE # None)
    => /\ Len(TAI_LEAP_SECOND_TABLE) = Len(UTC_LEAP_SECOND_TABLE)
       /\ \A i \in 1..Len(UTC_LEAP_SECOND_TABLE) :
             TAI_LEAP_SECOND_TABLE[i] =
                 <<UTC_LEAP_SECOND_TABLE[i][1] + UTC_LEAP_SECOND_TABLE[i][2],
                   UTC_LEAP_SECOND_TABLE[i][2]>>

\* C11: when an update started by the timer fails in its fetch/build step,
\* the refresh cycle goes on: a timer is armed again (or an update is under
\* way), so another update is attempted.
C11_RetryScheduled ==
    \A th \in 1..MaxUpdates :
        upd[th].pc = "raised in fetch"
        => \/ \E i \in 1..Len(timers) : Armed(timers[i])
           \/ \E other \in Threads : ~Ended(upd[other])

\* C12: an update that fails in its fetch/build step (auto_open() raises, or
\* no row is left to build from) leaves both published tables exactly as
\* they were, so conversions keep answering from the table published before.
C12_FailedFetchKeepsTables ==
    [][\A th \in Threads :
          (upd[th].pc = "fetch" /\ upd'[th].pc = "raised in fetch")
          => /\ UTC_LEAP_SECOND_TABLE' = UTC_LEAP_SECOND_TABLE
             /\ TAI_LEAP_SECOND_TABLE' = TAI_LEAP_SECOND_TABLE]_vars

\* The update started by the timer failed in its fetch, and a conversion
\* that read the published table afterwards returned a value from it.
C12_Witness ==
    /\ \E th \in 1..MaxUpdates : upd[th].pc = "raised in fetch"
    /\ UTC_LEAP_SECOND_TABLE # None
    /\ TAI_LEAP_SECOND_TABLE = BuildTaiTable(UTC_LEAP_SECOND_TABLE)
    /\ Returned("utc_from_tai_unix")
    /\ rd.tbl = TAI_LEAP_SECOND_TABLE
    /\ rd.res.status = "ok"

\* The expiry date of a published table: the instant of its last row.
Expiry(table) == table[Len(table)][1]

\* C13: when an update publishes a table with a later expiry date E2 > E1,
\* every utc with E1 - 86400 < utc <= E2 - 86400 failed with the expiry
\* ValueError on the old table and is converted on the new one; a call that
\* starts after line 295 reads the new table, and a call that read a table
\* converts every utc from its first row up to a day before its expiry.
C13_RefreshExtendsRange ==
    [][/\ \A th \in Threads :
             (upd[th].pc = "store_utc" /\ upd'[th].pc = "store_tai"
                  /\ UTC_LEAP_SECOND_TABLE # None
                  /\ upd[th].expiry > Expiry(UTC_LEAP_SECOND_TABLE))
             => \A utc \in LiveUtcQueries :
                   (NumLess(Whole(Expiry(UTC_LEAP_SECOND_TABLE)
                                      - SECONDS_PER_DAY), utc)
                        /\ NumLeq(utc, Whole(upd[th].expiry
                                                 - SECONDS_PER_DAY)))
                   => /\ tai_from_utc_unix(UTC_LEAP_SECOND_TABLE, utc).status
                            = ExpiryError
                      /\ tai_from_utc_unix(UTC_LEAP_SECOND_TABLE', utc).status
                            = "ok"
       /\ (rd.pc = "idle" /\ rd'.pc = "called"
               /\ rd'.fn = "tai_from_utc_unix")
          => rd'.tbl = UTC_LEAP_SECOND_TABLE
       /\ (rd.pc = "called" /\ rd'.pc = "idle"
               /\ rd.fn = "tai_from_utc_unix"
               /\ InTableRange(rd.tbl, rd.arg, SECONDS_PER_DAY))
          => rd'.res.status = "ok"]_vars

\* The table loaded at import expired on 2017-06-28; the update started by
\* its timer published one that expires on 2017-12-28, and a conversion of
\* 2017-12-27, called on the new table, returned a value.
C13_Witness ==
    /\ Len(timers) >= 1 /\ timers[1].fired
    /\ timers[1].due = UnixOfDate(2017, 6, 28)
                           - LEAP_SECOND_TABLE_UPDATE_MARGIN_DAYS
                                 * SECONDS_PER_DAY
    /\ Ended(upd[1])
    /\ UTC_LEAP_SECOND_TABLE # None
    /\ Expiry(UTC_LEAP_SECOND_TABLE) = UnixOfDate(2017, 12, 28)
    /\ Returned("tai_from_utc_unix")
    /\ rd.tbl = UTC_LEAP_SECOND_TABLE
    /\ rd.arg = Whole(UnixOfDate(2017, 12, 28) - SECONDS_PER_DAY)
    /\ rd.res.status = "ok"

\* C14: index_generator(imin, imax, i0) yields i0 first (imin when i0 is
\* None); each later value is the previous one plus 1, except that the value
\* after imax is imin; every value lies in [imin, imax], and the sequence
\* repeats with period imax - imin + 1 and no shorter one.
C14_IndexSequence ==
    gen.pc = "suspended"
    => LET out == gen.out
           period == gen.imax - gen.imin + 1
       IN  /\ out[1] = IF gen.i0 = None THEN gen.imin ELSE gen.i0[1]
           /\ \A k \in 1..(Len(out) - 1) :
                 out[k + 1] = IF out[k] = gen.imax THEN gen.imin
                              ELSE out[k] + 1
           /\ \A k \in 1..Len(out) : gen.imin <= out[k] /\ out[k] <= gen.imax
           /\ \A k \in 1..Len(out), d \in 1..period :
                 k + d <= Len(out) => (out[k + d] = out[k] <=> d = period)

\* A generator started in the middle of its range has yielded imax, then
\* imin, and has come back to its first value.
C14_Witness ==
    /\ gen.pc = "suspended"
    /\ gen.i0 # None /\ gen.i0 # Some(gen.imin)
    /\ Len(gen.out) > gen.imax - gen.imin + 1
    /\ \E k \in 1..(Len(gen.out) - 1) :
          gen.out[k] = gen.imax /\ gen.out[k + 1] = gen.imin
    /\ gen.out[gen.imax - gen.imin + 2] = gen.i0[1]

\* C15: index_generator raises ValueError in the call itself, with no
\* generator returned and no value yielded, when imax <= imin or when i0 is
\* outside [imin, imax]; otherwise the call returns a generator.
C15_ArgumentCheck ==
    gen.pc # "none"
    => LET i0 == IF gen.i0 = None THEN gen.imin ELSE gen.i0[1]
           bad == gen.imax <= gen.imin \/ i0 < gen.imin \/ i0 > gen.imax
       IN  /\ bad => /\ gen.pc = "raised"
                     /\ gen.err \in {IminError, I0Error}
                     /\ gen.out = <<>>
           /\ ~bad => gen.pc \in {"created", "suspended"} /\ gen.err = ""

\* A call with imin < imax and i0 = imax + 1 has raised.
C15_Witness ==
    /\ gen.pc = "raised"
    /\ gen.imin < gen.imax
    /\ gen.i0 = Some(gen.imax + 1)
    /\ gen.err = I0Error
    /\ gen.out = <<>>

\* C16: on entry of modify_environ(**kwargs) every name given a string has
\* that value in os.environ, every name given None is absent, and every other
\* name is as it was; when the context exits, by the end of its body or by an
\* exception in it, os.environ is what it was before entry, whatever the body
\* did to it; if a value is neither a str nor None the entry raises
\* RuntimeError and os.environ is unchanged.
C16_ModifyEnviron ==
    [][/\ (ctx.pc = "out" /\ ctx'.pc = "in")
          => \A n \in EnvNames :
                IF n \in DOMAIN ctx'.kwargs
                THEN IF ctx'.kwargs[n] = NoneValue
                     THEN n \notin DOMAIN Environ'
                     ELSE /\ ctx'.kwargs[n].type = "str"
                          /\ n \in DOMAIN Environ'
                          /\ Environ'[n] = ctx'.kwargs[n].val
                ELSE /\ n \in DOMAIN Environ' <=> n \in DOMAIN Environ
                     /\ n \in DOMAIN Environ => Environ'[n] = Environ[n]
       /\ (ctx.pc = "in" /\ ctx'.pc = "exited") => Environ' = ctx.before
       /\ (ctx.pc = "out" /\ ctx'.pc # "out")
          => /\ ctx'.pc = "raised"
                   <=> \E n \in DOMAIN ctx'.kwargs :
                          ctx'.kwargs[n].type \notin {"str", "NoneType"}
             /\ ctx'.pc = "raised"
                   => ctx'.err = BadValueError /\ Environ' = Environ]_vars

\* A context that deleted HOME and set ENV_TO_SET has been left by an
\* exception, and os.environ holds HOME and no ENV_TO_SET, as before.
C16_Witness ==
    /\ ctx.pc = "exited" /\ ctx.exit = "exception"
    /\ DOMAIN ctx.kwargs = {"HOME", "ENV_TO_SET"}
    /\ ctx.kwargs["HOME"] = NoneValue
    /\ ctx.kwargs["ENV_TO_SET"] = StrValue("a")
    /\ DOMAIN Environ = {"HOME"}
    /\ Environ = ctx.before

\* A UTC table built in full from one file: every row from 1972 on, in the
\* file's order, then the expiry date with the last offset.
FullyBuiltUtc(table) ==
    \E ap_table \in LiveApTables :
        LET rows == MapRows(ap_table[1])
        IN  /\ rows # <<>>
            /\ Len(table) = Len(rows) + 1
            /\ \A i \in 1..Len(rows) : table[i] = RowToUtc(
                   SelectSeq(ap_table[1], RowYearOk)[i])
            /\ table[Len(table)] = <<ap_table[2], rows[Len(rows)][2]>>

\* The UTC table a TAI table was made from.
UtcRowsOf(table) ==
    [i \in 1..Len(table) |-> <<table[i][1] - table[i][2], table[i][2]>>]

\* C17: every value of the published UTC and TAI table variables, and every
\* value a conversion has read from them, is None or a sequence built in
\* full, with all real rows and the final expiry row; the variables change
\* only by a store of such a sequence, which replaces the reference.
C17_OnlyBuiltTables ==
    /\ [](/\ UTC_LEAP_SECOND_TABLE # None
                => FullyBuiltUtc(UTC_LEAP_SECOND_TABLE)
          /\ TAI_LEAP_SECOND_TABLE # None
                => FullyBuiltUtc(UtcRowsOf(TAI_LEAP_SECOND_TABLE))
          /\ (rd.fn = "tai_from_utc_unix" /\ rd.tbl # None)
                => FullyBuiltUtc(rd.tbl)
          /\ (rd.fn = "utc_from_tai_unix" /\ rd.tbl # None)
                => FullyBuiltUtc(UtcRowsOf(rd.tbl)))
    /\ [][/\ UTC_LEAP_SECOND_TABLE' # UTC_LEAP_SECOND_TABLE
                => \E th \in Threads :
                      /\ upd[th].pc = "store_utc"
                      /\ UTC_LEAP_SECOND_TABLE' = upd[th].utc
          /\ TAI_LEAP_SECOND_TABLE' # TAI_LEAP_SECOND_TABLE
                => \E th \in Threads :
                      /\ upd[th].pc = "store_tai"
                      /\ TAI_LEAP_SECOND_TABLE' = upd[th].tai
          /\ (rd.pc = "called" /\ rd'.pc = "called") => rd'.tbl = rd.tbl]_vars

\* A conversion holds the table with three rows and the expiry row that it
\* read, while an update is between its two stores.
C17_Witness ==
    /\ rd.pc = "called" /\ rd.fn = "tai_from_utc_unix"
    /\ rd.tbl # None /\ Len(rd.tbl) = 4
    /\ rd.tbl[4][1] = UnixOfDate(2017, 12, 28)
    /\ \E th \in Threads : upd[th].pc = "store_tai"

\* C18: no two updates of the table run at the same time: an explicit update
\* cancels the armed timer before it fetches, builds or publishes, so while
\* it does no timer is armed that could fire and start a second update.
C18_NoConcurrentRebuilds ==
    /\ \A a \in Threads, b \in Threads :
          (~Ended(upd[a]) /\ ~Ended(upd[b])) => a = b
    /\ (main = "running"
            /\ upd[0].pc \in {"fetch", "store_utc", "store_tai"})
       => \A i \in 1..Len(timers) : ~Armed(timers[i])

\* C19: in every state after an update of the leap second table has
\* completed (the one at module load included), no update being under way,
\* and until the timer it armed fires, the UTC table is set and the module's
\* update timer is a started daemon timer; every timer calls the update
\* function, so each completed update has scheduled the next one.
C19_UpdateScheduled ==
    (main \in {"probe", "running"}
         /\ (\A th \in Threads : Ended(upd[th]))
         /\ LEAP_SECOND_TABLE_UPDATE_TIMER # 0
         /\ ~timers[LEAP_SECOND_TABLE_UPDATE_TIMER].fired)
    => /\ UTC_LEAP_SECOND_TABLE # None
       /\ timers[LEAP_SECOND_TABLE_UPDATE_TIMER].started
       /\ timers[LEAP_SECOND_TABLE_UPDATE_TIMER].daemon
       /\ ~timers[LEAP_SECOND_TABLE_UPDATE_TIMER].cancelled

\* C20 as stated: the delay of the timer armed by an update is
\* max(0, expiration - margin_days * 86400 - now), hence never negative.
C20_DelayNonNegative ==
    \A i \in 1..Len(timers) : timers[i].interval >= 0

\* C20 amended: the delay of the timer armed by an update is
\* expiration - margin_days * 86400 - now, with no lower bound: it is
\* negative when the update date of the table just fetched is already past,
\* and the timer is created with that delay.
C20_DelayIsDifference ==
    [][\A th \in Threads :
          /\ (upd[th].pc = "cancel" /\ upd'[th].pc = "create")
             => /\ upd'[th].delay = upd[th].expiry
                       - LEAP_SECOND_TABLE_UPDATE_MARGIN_DAYS * SECONDS_PER_DAY
                       - now
                /\ upd[th].expiry = Expiry(upd[th].utc)
                /\ (now > upd[th].expiry
                        - LEAP_SECOND_TABLE_UPDATE_MARGIN_DAYS * SECONDS_PER_DAY)
                   => upd'[th].delay < 0
          /\ (upd[th].pc = "create" /\ upd'[th].pc = "daemon")
             => /\ Len(timers') = Len(timers) + 1
                /\ timers'[Len(timers')].interval = upd[th].delay]_vars

\* An update that ran on the expiry date of its table armed a timer with a
\* delay of minus ten days, and that timer has fired.
C20_Witness ==
    \E i \in 1..Len(timers) :
        /\ timers[i].interval
               = 0 - LEAP_SECOND_TABLE_UPDATE_MARGIN_DAYS * SECONDS_PER_DAY
        /\ timers[i].started /\ timers[i].fired
        /\ timers[i].due < now

\* C21: the probe selects the system TAI clock if and only if
\* time.clock_gettime exists, the read of CLOCK_TAI succeeds, the computed
\* read succeeds, and the two differ by at most 1.1 s either way (exactly
\* 1.1 s still selects it); in every other case it selects
\* current_tai_from_utc; the probe always ends with a source selected.
C21_ProbeSelection ==
    /\ main \in {"load", "probe", "running", "import_failed"}
    /\ (main = "running" /\ Cardinality(platform) = 1)
       => LET p == CHOOSE q \in platform : TRUE
              tslow == tai_from_utc_unix(UTC_LEAP_SECOND_TABLE, Whole(now))
              tfast == Norm(now + p.kernel_offset[1], p.kernel_offset[2])
              usable ==
                  /\ p.has_clock_gettime
                  /\ ~p.clock_tai_fails
                  /\ tslow.status = "ok"
                  /\ NumLeq(NumDiff(tslow.val, tfast), ProbeMargin)
                  /\ NumLeq(NumDiff(tfast, tslow.val), ProbeMargin)
          IN  /\ usable => current_tai = SystemAtomicClock(p.kernel_offset)
              /\ ~usable => current_tai = ComputedFromUtc

\* The kernel's TAI clock was exactly 1.1 s ahead of the computed TAI, and
\* the probe selected it.
C21_Witness ==
    /\ main = "running" /\ Cardinality(platform) = 1
    /\ current_tai.src = "system_tai"
    /\ tai_from_utc_unix(UTC_LEAP_SECOND_TABLE, Whole(now)).status = "ok"
    /\ NumDiff(Norm(now + current_tai.off[1], current_tai.off[2]),
               tai_from_utc_unix(UTC_LEAP_SECOND_TABLE, Whole(now)).val)
           = ProbeMargin

\* C22: the clock source is selected once, by the import, after the first
\* table has been published; afterwards no conversion, current_tai() call,
\* update or failed update changes the source current_tai() dispatches to,
\* and a call of current_tai() returns what the selected source alone gives.
C22_SelectedOnce ==
    [][/\ current_tai' # current_tai
          => /\ current_tai = Unset /\ current_tai' # Unset
             /\ main = "probe" /\ main' = "running"
             /\ UTC_LEAP_SECOND_TABLE # None /\ TAI_LEAP_SECOND_TABLE # None
       /\ (main = "running" /\ main' = "running") => current_tai # Unset
       /\ (rd.pc = "called" /\ rd'.pc = "idle" /\ rd.fn = "current_tai")
          => rd'.res =
                IF current_tai.src = "system_tai"
                THEN Ok(Norm(rd.arg[1] + current_tai.off[1],
                             current_tai.off[2]))
                ELSE tai_from_utc_unix(rd.tbl, rd.arg)]_vars

\* The system TAI clock was selected; since then an update has run and the
\* clock has passed the last instant the table converts, and current_tai()
\* has still returned the system clock's time.
C22_Witness ==
    /\ main = "running" /\ current_tai.src = "system_tai"
    /\ Len(timers) >= 2
    /\ tai_from_utc_unix(UTC_LEAP_SECOND_TABLE, Whole(now)).status
           = ExpiryError
    /\ Returned("current_tai") /\ rd.arg = Whole(now)
    /\ rd.res = Ok(Norm(now + current_tai.off[1], current_tai.off[2]))

\* The rows of a file that are from 1972 on, mapped to (utc, offset).
RealRows(ap_rows) ==
    LET kept == SelectSeq(ap_rows, LAMBDA row : row[1] >= 1972)
    IN  [i \in 1..Len(kept) |->
            <<UnixOfDate(kept[i][1], kept[i][2], 1), kept[i][3]>>]

Ascending(table) ==
    \A i \in 1..(Len(table) - 1) : table[i][1] < table[i + 1][1]

\* C23 as stated: building a table fails, and publishes nothing, if no row
\* is left after the year >= 1972 filter or if the mapped rows are not in
\* ascending order.
C23_EmptyOrUnsortedFails ==
    \A ap_table \in source :
        (Cardinality(source) = 1
             /\ (RealRows(ap_table[1]) = <<>>
                     \/ ~Ascending(RealRows(ap_table[1]))))
        => UTC_LEAP_SECOND_TABLE = None /\ TAI_LEAP_SECOND_TABLE = None

\* C23 amended: building a table fails, and publishes nothing, if no row is
\* left after the year >= 1972 filter; the order of the rows is not checked:
\* rows that are not ascending are built and published in the order given,
\* the expiry row after them.
C23_EmptyFails ==
    \A ap_table \in source :
        Cardinality(source) = 1
        => LET rows == RealRows(ap_table[1])
           IN  /\ rows = <<>>
                     => /\ UTC_LEAP_SECOND_TABLE = None
                        /\ TAI_LEAP_SECOND_TABLE = None
                        /\ upd[0].pc \in {"fetch", "raised in fetch"}
               /\ (rows # <<>> /\ ~Ended(upd[0]) /\ upd[0].pc # "fetch")
                     => upd[0].utc = Append(rows, <<ap_table[2],
                                                   rows[Len(rows)][2]>>)
               /\ UTC_LEAP_SECOND_TABLE # None
                     => UTC_LEAP_SECOND_TABLE
                            = Append(rows, <<ap_table[2], rows[Len(rows)][2]>>)

\* The import's update has published the rows of 2017-01 and 1972-07, in
\* that order, and has armed its timer.
C23_Witness ==
    /\ Cardinality(source) = 1
    /\ UTC_LEAP_SECOND_TABLE # None /\ TAI_LEAP_SECOND_TABLE # None
    /\ Len(UTC_LEAP_SECOND_TABLE) = 3
    /\ UTC_LEAP_SECOND_TABLE[1][1] > UTC_LEAP_SECOND_TABLE[2][1]
    /\ main = "probe"

\* The TAI sequence tai goes entry for entry with the UTC sequence utc, whose
\* last entry is the expiry row with the offset of the last real row, and
\* both are strictly ascending.
WellFormedPair(utc, tai) ==
    /\ Len(utc) >= 2 /\ Len(tai) = Len(utc)
    /\ \A i \in 1..Len(utc) : tai[i] = <<utc[i][1] + utc[i][2], utc[i][2]>>
    /\ utc[Len(utc)][2] = utc[Len(utc) - 1][2]
    /\ Ascending(utc) /\ Ascending(tai)

\* C24: the published tables always are a well-formed pair: the UTC and the
\* TAI sequence have the same length, TAI entry i is (utc_i + offset_i,
\* offset_i), the last UTC entry is the sentinel (expiry, offset of the last
\* real row), and both sequences are strictly ascending.
C24_TableInvariant ==
    (UTC_LEAP_SECOND_TABLE # None \/ TAI_LEAP_SECOND_TABLE # None)
    => /\ UTC_LEAP_SECOND_TABLE # None /\ TAI_LEAP_SECOND_TABLE # None
       /\ WellFormedPair(UTC_LEAP_SECOND_TABLE, TAI_LEAP_SECOND_TABLE)
       /\ Expiry(UTC_LEAP_SECOND_TABLE) \in ExpiryDates

\* C25: a conversion call reads the global table once, when it starts, and
\* does its range check, lookup and interpolation on that value: whatever an
\* update stores meanwhile, the call's outcome (value or error) is the one
\* computed entirely on the table it read, the old one or the new one.
C25_OneSnapshot ==
    [][/\ (rd.pc = "idle" /\ rd'.pc = "called")
          => /\ rd'.fn = "tai_from_utc_unix"
                   => rd'.tbl = UTC_LEAP_SECOND_TABLE
             /\ rd'.fn = "utc_from_tai_unix"
                   => rd'.tbl = TAI_LEAP_SECOND_TABLE
       /\ (rd.pc = "called" /\ rd'.pc = "called") => rd' = rd
       /\ (rd.pc = "called" /\ rd'.pc = "idle")
          => /\ rd'.tbl = rd.tbl /\ rd'.arg = rd.arg
             /\ rd.fn = "tai_from_utc_unix"
                   => rd'.res = tai_from_utc_unix(rd.tbl, rd.arg)
             /\ rd.fn = "utc_from_tai_unix"
                   => rd'.res = utc_from_tai_unix(rd.tbl, rd.arg)]_vars

\* A conversion of 2017-12-27 read the table that expires on 2017-06-28; an
\* update then published the table that expires on 2017-12-28, on which the
\* conversion succeeds, and the call ended with the old table's refusal.
C25_Witness ==
    /\ Returned("tai_from_utc_unix")
    /\ rd.tbl # None /\ UTC_LEAP_SECOND_TABLE # None
    /\ Expiry(rd.tbl) = UnixOfDate(2017, 6, 28)
    /\ Expiry(UTC_LEAP_SECOND_TABLE) = UnixOfDate(2017, 12, 28)
    /\ rd.res.status = ExpiryError
    /\ tai_from_utc_unix(UTC_LEAP_SECOND_TABLE, rd.arg).status = "ok"

\* C26: after any interleaving of updates, started by a timer or called
\* explicitly, overlapping or not, at most one update timer is armed
\* (started, not fired, not cancelled), and it is the one the module's timer
\* variable refers to.
C26_OneArmedTimer ==
    \A i \in 1..Len(timers) :
        Armed(timers[i]) => i = LEAP_SECOND_TABLE_UPDATE_TIMER

\* C27: on a published table, for any query that passes the out-of-range
\* check and the before-start check, the bisect index i is in
\* 1..len(table)-1 in tai_from_utc_unix and in 1..len(table) in
\* utc_from_tai_unix, so table[i-1] and (in tai_from_utc_unix) table[i] are
\* inside the table and no call ends with IndexError.
C27_IndexInBounds ==
    /\ (Returned("tai_from_utc_unix") /\ rd.tbl # None
            /\ rd.res.status \notin {ExpiryError, StartError})
       => /\ Bisect(rd.tbl, rd.arg) \in 1..(Len(rd.tbl) - 1)
          /\ rd.res.status = "ok"
    /\ (Returned("utc_from_tai_unix") /\ rd.tbl # None
            /\ rd.res.status \notin {ExpiryError, StartError})
       => /\ Bisect(rd.tbl, rd.arg) \in 1..Len(rd.tbl)
          /\ rd.res.status = "ok"

\* tai_from_utc_unix(utc) returned tai and utc_from_tai_unix(tai) returned.
RoundTripFromUtc ==
    /\ Returned("utc_from_tai_unix")
    /\ prev.fn = "tai_from_utc_unix" /\ prev.res.status = "ok"
    /\ rd.arg = prev.res.val

\* utc is convertible and not within the 24 hours before the next entry.
InFlatRegion(table, utc_unix) ==
    /\ InTableRange(table, utc_unix, SECONDS_PER_DAY)
    /\ LET k == LastAtOrBefore(table, utc_unix)
       IN  NumLeq(NumPlus(utc_unix, SECONDS_PER_DAY), Whole(table[k + 1][1]))

\* C28: for any utc in the convertible range that is not within the 24 hours
\* before the next table entry, exactly a leap-second instant included,
\* utc_from_tai_unix(tai_from_utc_unix(utc)) = utc.
C28_FlatRoundTrip ==
    (RoundTripFromUtc /\ InFlatRegion(UTC_LEAP_SECOND_TABLE, prev.arg))
    => rd.res = Ok(prev.arg)

\* A round trip from exactly a leap-second instant came back to it.
C28_Witness ==
    /\ RoundTripFromUtc
    /\ InFlatRegion(UTC_LEAP_SECOND_TABLE, prev.arg)
    /\ \E k \in 1..Len(UTC_LEAP_SECOND_TABLE) :
          /\ IsLeap(UTC_LEAP_SECOND_TABLE, k)
          /\ prev.arg = Whole(UTC_LEAP_SECOND_TABLE[k][1])
    /\ rd.res = Ok(prev.arg)

====
